---- MODULE Spec2Model ----
(***************************************************************************)
(* Model of bin/gftools-add-designer.py: the designer-record               *)
(* synchronisation routine make_designer, its helpers process_image,       *)
(* gen_info and parse_urls, and the command entry point main.              *)
(*                                                                         *)
(* Conventions.                                                            *)
(*  - A Python str is a sequence of one-character strings; a Python list   *)
(*    is a sequence.  None is the empty tuple and a present value v is     *)
(*    the one-element tuple <<v>>, so "if x:" is Truthy(x).                *)
(*  - The catalog is a file system: a function from paths (sequences of    *)
(*    path components) to nodes, a node being a directory or a file with   *)
(*    its content.  Names hold no path separator.                          *)
(*  - An operation returns the file system it leaves and the exception     *)
(*    it raised ("none" when it returned normally).                        *)
(*  - The source image lives outside the catalog: img_path is modelled by  *)
(*    what the path refers to, None (not a regular file) or an image.      *)
(***************************************************************************)
EXTENDS Integers, Sequences, FiniteSets, TLC

VARIABLES fs, pre, last

vars == <<fs, pre, last>>

(* ------------------------------------------------------------------ *)
(* Python values                                                      *)
(* ------------------------------------------------------------------ *)

None == <<>>

Some(v) == <<v>>

\* "if x:" for x None, a str or a list: None, "" and [] are falsy.
Truthy(x) == x # None /\ Len(x[1]) > 0

\* str.lower() on the letters the model uses.
LowerChar(c) ==
  CASE c = "A" -> "a"
    [] c = "B" -> "b"
    [] OTHER -> c

Lower(s) == [i \in 1..Len(s) |-> LowerChar(s[i])]

\* str.replace(c, "") for a one-character c: every occurrence goes.
RECURSIVE Remove(_, _)
Remove(s, c) ==
  IF s = <<>> THEN <<>>
  ELSE IF Head(s) = c THEN Remove(Tail(s), c)
  ELSE <<Head(s)>> \o Remove(Tail(s), c)

\* str.replace(c, "", 1): only the first occurrence goes.
RECURSIVE RemoveFirst(_, _)
RemoveFirst(s, c) ==
  IF s = <<>> THEN <<>>
  ELSE IF Head(s) = c THEN Tail(s)
  ELSE <<Head(s)>> \o RemoveFirst(Tail(s), c)

\* s.startswith(p)
StartsWith(s, p) == Len(s) >= Len(p) /\ SubSeq(s, 1, Len(p)) = p

\* Index of the first occurrence of the two-character separator "//" in s
\* at or after position i, or 0 when there is none.
RECURSIVE FindSlashes(_, _)
FindSlashes(s, i) ==
  IF i + 1 > Len(s) THEN 0
  ELSE IF s[i] = "/" /\ s[i + 1] = "/" THEN i
  ELSE FindSlashes(s, i + 1)

\* s.split('//'): left to right, non-overlapping; always at least one piece.
RECURSIVE SplitSlashes(_)
SplitSlashes(s) ==
  LET i == FindSlashes(s, 1)
  IN IF i = 0 THEN <<s>>
     ELSE <<SubSeq(s, 1, i - 1)>> \o SplitSlashes(SubSeq(s, i + 2, Len(s)))

IsSpace(c) == c \in {" ", "\t", "\n"}

\* s.split(): the maximal runs of non-whitespace characters, in order.
RECURSIVE SplitWhitespaceFrom(_, _)
SplitWhitespaceFrom(s, cur) ==
  IF s = <<>> THEN (IF cur = <<>> THEN <<>> ELSE <<cur>>)
  ELSE IF IsSpace(Head(s))
       THEN (IF cur = <<>> THEN <<>> ELSE <<cur>>) \o SplitWhitespaceFrom(Tail(s), <<>>)
       ELSE SplitWhitespaceFrom(Tail(s), Append(cur, Head(s)))

SplitWhitespace(s) == SplitWhitespaceFrom(s, <<>>)

\* sep.join(parts)
RECURSIVE JoinWith(_, _)
JoinWith(sep, parts) ==
  IF parts = <<>> THEN <<>>
  ELSE IF Len(parts) = 1 THEN parts[1]
  ELSE parts[1] \o sep \o JoinWith(sep, Tail(parts))

(* ------------------------------------------------------------------ *)
(* The catalog as a file system                                       *)
(* ------------------------------------------------------------------ *)

DirNode == [type |-> "dir"]

FileNode(data) == [type |-> "file", data |-> data]

\* os.path.join(dir, name) and os.path.basename(path)
PathJoin(dir, name) == Append(dir, name)

Basename(path) == path[Len(path)]

Parent(path) == SubSeq(path, 1, Len(path) - 1)

Exists(f, p) == p \in DOMAIN f

isdir(f, p) == Exists(f, p) /\ f[p].type = "dir"

isfile(f, p) == Exists(f, p) /\ f[p].type = "file"

Put(f, p, node) == [q \in DOMAIN f \cup {p} |-> IF q = p THEN node ELSE f[q]]

Ok(f) == [fs |-> f, err |-> "none"]

Raise(f, e) == [fs |-> f, err |-> e]

\* os.mkdir(p)
mkdir(f, p) ==
  IF Exists(f, p) THEN Raise(f, "FileExistsError")
  ELSE IF ~isdir(f, Parent(p)) THEN Raise(f, "FileNotFoundError")
  ELSE Ok(Put(f, p, DirNode))

\* open(p, "w").write(data), and Image.save(p): a whole-file replacement.
write(f, p, data) ==
  IF isdir(f, p) THEN Raise(f, "IsADirectoryError")
  ELSE IF ~isdir(f, Parent(p)) THEN Raise(f, "FileNotFoundError")
  ELSE Ok(Put(f, p, FileNode(data)))

(* ------------------------------------------------------------------ *)
(* process_image                                                      *)
(* ------------------------------------------------------------------ *)

\* The bounding box handed to Image.thumbnail, and the size below which the
\* "smaller than 300x300px" warning is printed.
ThumbSize == 300

Abs(x) == IF x < 0 THEN -x ELSE x

Max2(a, b) == IF a >= b THEN a ELSE b

CeilDiv(a, b) == (a + b - 1) \div b

\* Pillow's Image.thumbnail((tw, th)) on an image of size (w, h): the size it
\* leaves.  Unchanged when the image fits the box; otherwise the box side along
\* the larger excess is kept and the other side is floor or ceil of the
\* aspect-preserving value, whichever is nearer in aspect, and never below 1.
\* Ratios are compared exactly, by cross-multiplication.  When floor and ceil
\* are exactly as near, Pillow's floating-point comparison decides, either
\* way depending on the size: ceil_on_tie is how it falls for this image.
thumbnail(w, h, tw, th, ceil_on_tie) ==
  IF tw >= w /\ th >= h THEN <<w, h>>
  ELSE IF tw * h >= w * th
       THEN LET lo == (th * w) \div h
                hi == CeilDiv(th * w, h)
                klo == Abs(w * th - lo * h)
                khi == Abs(w * th - hi * h)
                pick == IF klo < khi \/ (klo = khi /\ ~ceil_on_tie) THEN lo ELSE hi
            IN <<Max2(pick, 1), th>>
       ELSE LET lo == (tw * h) \div w
                hi == CeilDiv(tw * h, w)
                klo == Abs(w * lo - tw * h) * hi
                khi == Abs(w * hi - tw * h) * lo
                pick == IF lo = 0 THEN lo
                        ELSE IF klo < khi \/ (klo = khi /\ ~ceil_on_tie)
                             THEN lo ELSE hi
            IN <<tw, Max2(pick, 1)>>

\* process_image without the resize: the image is returned as opened.
process_image_no_resize(fp) ==
  IF fp = None THEN [err |-> "ValueError", ret |-> None, warnings |-> {}]
  ELSE [err |-> "none", ret |-> fp,
        warnings |-> (IF fp[1].w # fp[1].h THEN {"rectangular"} ELSE {})
                     \cup (IF fp[1].w < ThumbSize \/ fp[1].h < ThumbSize
                           THEN {"small"} ELSE {})]

\* process_image(fp): fp is what the path refers to, None when it is not a
\* regular file, else <<image>> with fields w, h, px (the pixel content) and
\* ceil_on_tie (see thumbnail).
process_image(fp) ==
  IF fp = None THEN [err |-> "ValueError", ret |-> None, warnings |-> {}]
  ELSE LET img == fp[1]
           size == thumbnail(img.w, img.h, ThumbSize, ThumbSize, img.ceil_on_tie)
       IN [err |-> "none",
           ret |-> Some([w |-> size[1], h |-> size[2], px |-> img.px]),
           warnings |-> (IF img.w # img.h THEN {"rectangular"} ELSE {})
                        \cup (IF img.w < ThumbSize \/ img.h < ThumbSize
                              THEN {"small"} ELSE {})]

(* ------------------------------------------------------------------ *)
(* gen_info                                                           *)
(* ------------------------------------------------------------------ *)

\* gen_info that records the name in its normalised, lower-case form.
gen_info_lowered(designer, img_path) ==
  << [key |-> "designer", val |-> Lower(designer)],
     [key |-> "link", val |-> <<>>],
     [key |-> "avatar", val |-> << [key |-> "file_name", val |-> img_path] >>] >>

\* gen_info(designer, img_path): the text-format record, as its fields in
\* index order.  The link parameter is ignored: link is always "".
gen_info(designer, img_path) ==
  << [key |-> "designer", val |-> designer],
     [key |-> "link", val |-> <<>>],
     [key |-> "avatar", val |-> << [key |-> "file_name", val |-> img_path] >>] >>

(* ------------------------------------------------------------------ *)
(* parse_urls                                                         *)
(* ------------------------------------------------------------------ *)

HttpPrefix == <<"h", "t", "t", "p">>

HttpsScheme == <<"h", "t", "t", "p", "s", ":", "/", "/">>

parse_urls(string) ==
  LET urls == SplitWhitespace(string)
  IN [i \in 1..Len(urls) |->
        IF ~StartsWith(urls[i], HttpPrefix) THEN HttpsScheme \o urls[i] ELSE urls[i]]

(* ------------------------------------------------------------------ *)
(* make_designer                                                      *)
(* ------------------------------------------------------------------ *)

\* The directory key with only the first space and the first hyphen removed.
designer_dir_name_first_only(name) == RemoveFirst(RemoveFirst(Lower(name), " "), "-")

\* name.lower().replace(" ", "").replace("-", "")
designer_dir_name(name) == Remove(Remove(Lower(name), " "), "-")

PngSuffix == <<".", "p", "n", "g">>

InfoName == <<"i", "n", "f", "o", ".", "p", "b">>

BioName == <<"b", "i", "o", ".", "h", "t", "m", "l">>

Placeholder == <<"N", "/", "A">>

\* f"<p>{x}</p>"
Paragraph(x) == <<"<", "p", ">">> \o x \o <<"<", "/", "p", ">">>

\* The directory step with the existence check left out.
ensure_dir_unchecked(f, designer_dir) == mkdir(f, designer_dir)

\* if not os.path.isdir(designer_dir): os.mkdir(designer_dir)
ensure_dir(f, designer_dir) ==
  IF ~isdir(f, designer_dir) THEN mkdir(f, designer_dir) ELSE Ok(f)

\* f"<a href={u}>{u.split('//')[1]}</a>"; indexing raises IndexError when
\* the URL holds no "//".
AnchorRaises(u) == Len(SplitSlashes(u)) < 2

Anchor(u) ==
  <<"<", "a", " ", "h", "r", "e", "f", "=">> \o u \o <<">">>
    \o SplitSlashes(u)[2] \o <<"<", "/", "a", ">">>

\* The bio step that writes the placeholder whenever no bio is supplied.
html_text_always_placeholder(f, bio_file, bio, urls) ==
  IF Truthy(bio)
  THEN IF Truthy(urls)
       THEN IF \E i \in 1..Len(urls[1]) : AnchorRaises(urls[1][i])
            THEN [err |-> "IndexError", text |-> None]
            ELSE [err |-> "none",
                  text |-> Some(Paragraph(bio[1]) \o <<"\n">>
                                \o Paragraph(JoinWith(<<" ", "|", " ">>,
                                     [i \in 1..Len(urls[1]) |-> Anchor(urls[1][i])])))]
       ELSE [err |-> "none", text |-> Some(Paragraph(bio[1]))]
  ELSE [err |-> "none", text |-> Some(Placeholder)]

\* The bio step that writes nothing when no bio is supplied.
html_text_no_placeholder(f, bio_file, bio, urls) ==
  IF Truthy(bio)
  THEN IF Truthy(urls)
       THEN IF \E i \in 1..Len(urls[1]) : AnchorRaises(urls[1][i])
            THEN [err |-> "IndexError", text |-> None]
            ELSE [err |-> "none",
                  text |-> Some(Paragraph(bio[1]) \o <<"\n">>
                                \o Paragraph(JoinWith(<<" ", "|", " ">>,
                                     [i \in 1..Len(urls[1]) |-> Anchor(urls[1][i])])))]
       ELSE [err |-> "none", text |-> Some(Paragraph(bio[1]))]
  ELSE [err |-> "none", text |-> None]

\* The value of html_text when line 94 is reached (None: nothing to write),
\* or the exception raised while building it.
html_text(f, bio_file, bio, urls) ==
  IF Truthy(bio)
  THEN IF Truthy(urls)
       THEN IF \E i \in 1..Len(urls[1]) : AnchorRaises(urls[1][i])
            THEN [err |-> "IndexError", text |-> None]
            ELSE [err |-> "none",
                  text |-> Some(Paragraph(bio[1]) \o <<"\n">>
                                \o Paragraph(JoinWith(<<" ", "|", " ">>,
                                     [i \in 1..Len(urls[1]) |-> Anchor(urls[1][i])])))]
       ELSE [err |-> "none", text |-> Some(Paragraph(bio[1]))]
  ELSE IF isfile(f, bio_file) THEN [err |-> "none", text |-> None]
  ELSE [err |-> "none", text |-> Some(Placeholder)]

\* make_designer(designer_directory, name, img_path, bio, urls) on catalog f:
\* the statements in source order, stopping at the first exception.
make_designer(f, designer_directory, name, img_path, bio, urls) ==
  LET dir_name == designer_dir_name(name)
      designer_dir == PathJoin(designer_directory, dir_name)
      s1 == ensure_dir(f, designer_dir)
      image == process_image(img_path)
      image_file == PathJoin(designer_dir, dir_name \o PngSuffix)
      s2 == write(s1.fs, image_file, image.ret[1])
      info_pb == gen_info(name, Basename(image_file))
      s3 == write(s2.fs, PathJoin(designer_dir, InfoName), info_pb)
      bio_file == PathJoin(designer_dir, BioName)
      html == html_text(s3.fs, bio_file, bio, urls)
  IN IF s1.err # "none" THEN s1
     ELSE IF image.err # "none" THEN Raise(s1.fs, image.err)
     ELSE IF s2.err # "none" THEN s2
     ELSE IF s3.err # "none" THEN s3
     ELSE IF html.err # "none" THEN Raise(s3.fs, html.err)
     ELSE IF Truthy(html.text) THEN write(s3.fs, bio_file, html.text[1])
     ELSE Ok(s3.fs)

(* ------------------------------------------------------------------ *)
(* main                                                               *)
(* ------------------------------------------------------------------ *)

\* entry = df.loc[df["Name"] == name]: the rows of the sheet with that name.
MatchingRows(sheet, name) ==
  LET Matches(row) == row.Name = name
  IN SelectSeq(sheet, Matches)

\* The local variables of main when line 122 is reached, as a function from
\* the names that are bound to their values; err is the exception raised
\* before that line (Series.item() raises ValueError unless exactly one row
\* matches).  The branch without --spreadsheet binds bio and url, not urls.
main_locals(args) ==
  IF args.spreadsheet # None
  THEN LET entry == MatchingRows(args.spreadsheet[1], args.name)
       IN IF Len(entry) # 1 THEN [err |-> "ValueError", env |-> <<>>]
          ELSE LET urls == Some(entry[1].Link)
               IN [err |-> "none",
                   env |-> [bio |-> Some(entry[1].Bio),
                            urls |-> IF Truthy(urls) THEN Some(parse_urls(urls[1]))
                                     ELSE urls]]
  ELSE [err |-> "none", env |-> [bio |-> None, url |-> None]]

\* main() with the parsed arguments args on catalog f.  called tells whether
\* make_designer was entered; reading the unbound local urls raises
\* UnboundLocalError while the call's arguments are evaluated.
main(f, args) ==
  LET loc == main_locals(args)
  IN IF loc.err # "none"
     THEN [fs |-> f, err |-> loc.err, called |-> FALSE, bio |-> None, urls |-> None]
     ELSE IF ~({"bio", "urls"} \subseteq DOMAIN loc.env)
     THEN [fs |-> f, err |-> "UnboundLocalError", called |-> FALSE,
           bio |-> None, urls |-> None]
     ELSE LET r == make_designer(f, args.designers_directory, args.name,
                                 args.img_path, loc.env.bio, loc.env.urls)
          IN [fs |-> r.fs, err |-> r.err, called |-> TRUE,
              bio |-> loc.env.bio, urls |-> loc.env.urls]

(* ------------------------------------------------------------------ *)
(* Inputs                                                             *)
(* ------------------------------------------------------------------ *)

MaxNameLen == 3

MaxUrls == 2

MaxTokens == 2

MaxSmallDim == 3

MaxDelta == 3

MaxScale == 3

SeqsUpTo(S, n) == UNION {[1..k -> S] : k \in 0..n}

\* The catalog root (designers_directory); it exists.
RootDir == <<>>

\* Display names: two different names that normalise to the same key.
NameAb == <<"A", " ", "b">>

NameAB == <<"a", "-", "B">>

Names == {NameAb, NameAB}

KeyAb == <<"a", "b">>

\* What img_path refers to: no file, a small rectangular image, a large one.
SmallImage == [w |-> 200, h |-> 100, px |-> "small", ceil_on_tie |-> FALSE]

LargeImage == [w |-> 600, h |-> 400, px |-> "large", ceil_on_tie |-> TRUE]

ImagePaths == {None, Some(SmallImage), Some(LargeImage)}

BioHi == <<"H", "i">>

Bios == {None, Some(<<>>), Some(BioHi)}

\* Well-formed absolute links: "https://a.b" and "http://a//b".
UrlPlain == <<"h", "t", "t", "p", "s", ":", "/", "/", "a", ".", "b">>

UrlDouble == <<"h", "t", "t", "p", ":", "/", "/", "a", "/", "/", "b">>

AbsoluteUrls == {UrlPlain, UrlDouble}

\* Tokens of a spreadsheet Link cell: "a.b", "http://a//b" and "httpa".
TokenBare == <<"a", ".", "b">>

TokenHttpNoSlashes == <<"h", "t", "t", "p", "a">>

LinkTokens == {TokenBare, UrlDouble, TokenHttpNoSlashes}

\* Link cells: the tokens separated by one space, and the same with
\* surrounding and doubled whitespace.
LinkCells ==
  LET toks == SeqsUpTo(LinkTokens, MaxTokens)
  IN {JoinWith(<<" ">>, t) : t \in toks}
     \cup {<<" ">> \o JoinWith(<<" ", "\t">>, t) \o <<"\n">> : t \in toks}

Row(name, bio, link) == [Name |-> name, Bio |-> bio, Link |-> link]

\* A catalog that already holds a hand-made record under the key "ab".
OldAvatar == [w |-> 120, h |-> 120, px |-> "old"]

HandBio == <<"<", "p", ">", "o", "l", "d", "<", "/", "p", ">">>

EmptyCatalog == (RootDir :> DirNode)

DirOf(key) == PathJoin(RootDir, key)

AvatarFile(key) == PathJoin(DirOf(key), key \o PngSuffix)

InfoFile(key) == PathJoin(DirOf(key), InfoName)

BioFile(key) == PathJoin(DirOf(key), BioName)

RecordCatalog ==
  (RootDir :> DirNode) @@ (DirOf(KeyAb) :> DirNode)
    @@ (AvatarFile(KeyAb) :> FileNode(OldAvatar))
    @@ (InfoFile(KeyAb) :> FileNode(gen_info(<<"A", "b">>, KeyAb \o PngSuffix)))
    @@ (BioFile(KeyAb) :> FileNode(HandBio))

\* The key's path is taken by a regular file.
BlockedCatalog == (RootDir :> DirNode) @@ (DirOf(KeyAb) :> FileNode(HandBio))

\* bio.html is a directory.
BioDirCatalog ==
  (RootDir :> DirNode) @@ (DirOf(KeyAb) :> DirNode) @@ (BioFile(KeyAb) :> DirNode)

InitialCatalogs == {EmptyCatalog, RecordCatalog, BlockedCatalog, BioDirCatalog}

Idle == [op |-> "idle"]

(* ------------------------------------------------------------------ *)
(* The catalog specification: calls of make_designer and runs of main *)
(* ------------------------------------------------------------------ *)

Init ==
  /\ fs \in InitialCatalogs
  /\ pre = fs
  /\ last = Idle

\* One call make_designer(RootDir, name, img_path, bio, urls).
CallMakeDesigner(names, images, bios, urlArgs) ==
  \E name \in names, img_path \in images, bio \in bios, urls \in urlArgs :
    LET r == make_designer(fs, RootDir, name, img_path, bio, urls)
    IN /\ fs' = r.fs
       /\ pre' = fs
       /\ last' = [op |-> "make_designer", name |-> name, img_path |-> img_path,
                   bio |-> bio, urls |-> urls, err |-> r.err, called |-> TRUE,
                   spreadsheet |-> None]

\* One run of the command: add-designer RootDir name img_path [--spreadsheet s].
CallMain(names, images, sheets) ==
  \E name \in names, img_path \in images, sheet \in sheets :
    LET args == [designers_directory |-> RootDir, name |-> name,
                 img_path |-> img_path, spreadsheet |-> sheet]
        r == main(fs, args)
    IN /\ fs' = r.fs
       /\ pre' = fs
       /\ last' = [op |-> "main", name |-> name, img_path |-> img_path,
                   bio |-> r.bio, urls |-> r.urls, err |-> r.err,
                   called |-> r.called, spreadsheet |-> sheet]

SpecUrlArgs == {None, Some(<<UrlPlain>>)}

\* No spreadsheet; one with a single row for NameAb; one with two such rows.
SpecSheets ==
  {None,
   Some(<<Row(NameAb, BioHi, TokenBare), Row(NameAB, <<>>, <<>>)>>),
   Some(<<Row(NameAb, BioHi, <<>>), Row(NameAb, BioHi, <<>>)>>)}

Next ==
  \/ CallMakeDesigner(Names, ImagePaths, Bios, SpecUrlArgs)
  \/ CallMain(Names, ImagePaths, SpecSheets)

Spec == Init /\ [][Next]_vars

(* ------------------------------------------------------------------ *)
(* The bio specification: one designer, one image, every bio and link *)
(* ------------------------------------------------------------------ *)

BioUrlArgs == {None} \cup {Some(u) : u \in SeqsUpTo(AbsoluteUrls, MaxUrls)}

BioSheets ==
  {None} \cup {Some(<<Row(NameAb, bio, link)>>) : bio \in {<<>>, BioHi}, link \in LinkCells}

InitBio ==
  /\ fs = EmptyCatalog
  /\ pre = fs
  /\ last = Idle

NextBio ==
  \/ CallMakeDesigner({NameAb}, {Some(LargeImage)}, Bios, BioUrlArgs)
  \/ CallMain({NameAb}, {Some(LargeImage)}, BioSheets)

SpecBio == InitBio /\ [][NextBio]_vars

(* ------------------------------------------------------------------ *)
(* The name specification: designer_dir_name on every short name      *)
(* ------------------------------------------------------------------ *)

NameChars == {"A", "a", " ", "-", "."}

AllNames == SeqsUpTo(NameChars, MaxNameLen)

InitName ==
  /\ fs = EmptyCatalog
  /\ pre = fs
  /\ last = Idle

Normalize ==
  \E name \in AllNames :
    /\ last' = [op |-> "designer_dir_name", name |-> name,
                ret |-> designer_dir_name(name)]
    /\ UNCHANGED <<fs, pre>>

SpecName == InitName /\ [][Normalize]_vars

(* ------------------------------------------------------------------ *)
(* The image specification: process_image on images around the bound  *)
(* ------------------------------------------------------------------ *)

Dims ==
  (1..MaxSmallDim)
    \cup ((ThumbSize - MaxDelta)..(ThumbSize + MaxDelta))
    \cup {(ThumbSize * k) \div 2 : k \in 1..(2 * MaxScale)}

InitImage ==
  /\ fs = EmptyCatalog
  /\ pre = fs
  /\ last = Idle

ProcessImage ==
  \E fp \in {None} \cup {Some([w |-> w, h |-> h, px |-> "src", ceil_on_tie |-> t]) :
                           w \in Dims, h \in Dims, t \in BOOLEAN} :
    /\ last' = [op |-> "process_image", fp |-> fp, ret |-> process_image(fp)]
    /\ UNCHANGED <<fs, pre>>

SpecImage == InitImage /\ [][ProcessImage]_vars

(* ------------------------------------------------------------------ *)
(* Observations of the last call                                      *)
(* ------------------------------------------------------------------ *)

\* make_designer was entered by the last step, directly or from main.
MadeCall == last.op \in {"make_designer", "main"} /\ last.called

LastKey == designer_dir_name(last.name)

\* The node at a path, as an optional value.
NodeAt(f, p) == IF Exists(f, p) THEN Some(f[p]) ELSE None

\* The value of a field of a text-format record.
Field(text, key) ==
  LET i == CHOOSE j \in 1..Len(text) : text[j].key = key
  IN text[i].val

Count(s, c) == Cardinality({i \in 1..Len(s) : s[i] = c})

\* The URL with everything up to and including its first "//" removed.
AfterFirstSlashes(u) ==
  LET i == FindSlashes(u, 1)
  IN IF i = 0 THEN u ELSE SubSeq(u, i + 2, Len(u))

ExpectedAnchor(u) ==
  <<"<", "a", " ", "h", "r", "e", "f", "=">> \o u \o <<">">>
    \o AfterFirstSlashes(u) \o <<"<", "/", "a", ">">>

ExpectedBio(bio, urls) ==
  IF Truthy(urls)
  THEN Paragraph(bio[1]) \o <<"\n">>
         \o Paragraph(JoinWith(<<" ", "|", " ">>,
              [i \in 1..Len(urls[1]) |-> ExpectedAnchor(urls[1][i])]))
  ELSE Paragraph(bio[1])

\* Number of anchors ("<a " openings) in an HTML text.
AnchorCount(text) ==
  Cardinality({i \in 1..(Len(text) - 2) :
                 text[i] = "<" /\ text[i + 1] = "a" /\ text[i + 2] = " "})

(* ------------------------------------------------------------------ *)
(* Claims                                                             *)
(* ------------------------------------------------------------------ *)

\* C1: when make_designer is called with bio absent or empty and bio.html
\* already exists as a file, bio.html holds after the call exactly what it
\* held before, whatever urls was passed.
BioUntouchedWhenNoBio ==
  (MadeCall /\ ~Truthy(last.bio) /\ isfile(pre, BioFile(LastKey)))
    => NodeAt(fs, BioFile(LastKey)) = NodeAt(pre, BioFile(LastKey))

\* A call with no bio but with urls completed on a catalog whose bio.html
\* was a file.
BioUntouchedWitness ==
  /\ MadeCall
  /\ last.bio = None
  /\ Truthy(last.urls)
  /\ last.err = "none"
  /\ isfile(pre, BioFile(LastKey))

\* C2: when make_designer is called with bio absent and bio.html does not
\* exist, a successful call leaves bio.html holding exactly N/A.
PlaceholderWhenNoBioNoFile ==
  (MadeCall /\ last.bio = None /\ ~Exists(pre, BioFile(LastKey)) /\ last.err = "none")
    => /\ isfile(fs, BioFile(LastKey))
       /\ fs[BioFile(LastKey)].data = Placeholder

\* A successful call with no bio for a designer whose directory did not exist.
PlaceholderWitness ==
  /\ MadeCall
  /\ last.bio = None
  /\ last.err = "none"
  /\ ~Exists(pre, DirOf(LastKey))
  /\ isfile(fs, BioFile(LastKey))

\* C3: with a non-empty bio, make_designer writes "<p>bio</p>", followed when
\* urls is non-empty by a newline and one paragraph of anchors joined by
\* " | ", each anchor showing its URL with everything up to and including the
\* first "//" removed (the whole remainder, later "//" included).
BioTextAsClaimed ==
  (last.op = "make_designer" /\ Truthy(last.bio))
    => /\ last.err = "none"
       /\ isfile(fs, BioFile(LastKey))
       /\ fs[BioFile(LastKey)].data = ExpectedBio(last.bio, last.urls)

\* C4: when img_path is not an existing file, make_designer fails and the
\* catalog is as it was before the call: no directory created, no file written.
NoMutationWhenImageMissing ==
  (MadeCall /\ last.img_path = None)
    => /\ last.err # "none"
       /\ fs = pre

\* C5: a call of make_designer that follows a call with the same name and the
\* same image leaves the info file and the avatar as the first call left them,
\* and does not fail on the directory the first call found or created.
SecondCallIdempotent ==
  [][(/\ MadeCall
      /\ MadeCall'
      /\ last'.name = last.name
      /\ last'.img_path = last.img_path)
       => /\ NodeAt(fs', InfoFile(LastKey)) = NodeAt(fs, InfoFile(LastKey))
          /\ NodeAt(fs', AvatarFile(LastKey)) = NodeAt(fs, AvatarFile(LastKey))
          /\ isdir(fs, DirOf(LastKey)) => last'.err # "FileExistsError"]_vars

\* A successful call found the info file and the avatar already holding what
\* it writes for this name and this image: the record of an earlier call with
\* the same arguments.
SecondCallWitness ==
  /\ MadeCall
  /\ last.err = "none"
  /\ isfile(pre, InfoFile(LastKey))
  /\ isfile(pre, AvatarFile(LastKey))
  /\ Field(pre[InfoFile(LastKey)].data, "designer") = last.name
  /\ pre[AvatarFile(LastKey)].data = process_image(last.img_path).ret[1]
  /\ NodeAt(fs, InfoFile(LastKey)) = NodeAt(pre, InfoFile(LastKey))
  /\ NodeAt(fs, AvatarFile(LastKey)) = NodeAt(pre, AvatarFile(LastKey))

\* C6: a run of main without --spreadsheet, with an existing image and a
\* usable designer directory, reaches make_designer with bio and urls absent
\* and completes: avatar and info are written, bio.html is the placeholder if
\* it did not exist and untouched if it did.
MainWithoutSpreadsheetAddsDesigner ==
  (/\ last.op = "main"
   /\ last.spreadsheet = None
   /\ last.img_path # None
   /\ ~isfile(pre, DirOf(LastKey))
   /\ ~isdir(pre, BioFile(LastKey)))
    => /\ last.called
       /\ last.err = "none"
       /\ last.bio = None
       /\ last.urls = None
       /\ isfile(fs, AvatarFile(LastKey))
       /\ isfile(fs, InfoFile(LastKey))
       /\ isfile(fs, BioFile(LastKey))
       /\ IF isfile(pre, BioFile(LastKey))
          THEN fs[BioFile(LastKey)] = pre[BioFile(LastKey)]
          ELSE fs[BioFile(LastKey)].data = Placeholder

\* C7: the directory key of a name holds no space, no hyphen and no upper-case
\* letter, keeps every other character of the name (its full stops, and its
\* length less the spaces and hyphens), and normalises to itself.
KeyNormalised ==
  last.op = "designer_dir_name"
    => /\ Count(last.ret, " ") = 0
       /\ Count(last.ret, "-") = 0
       /\ Lower(last.ret) = last.ret
       /\ Count(last.ret, ".") = Count(last.name, ".")
       /\ Len(last.ret) = Len(last.name) - Count(last.name, " ") - Count(last.name, "-")
       /\ designer_dir_name(last.ret) = last.ret

\* A name made of two separators (spaces or hyphens) and a full stop was
\* normalised to the full stop alone.
KeyNormalisedWitness ==
  /\ last.op = "designer_dir_name"
  /\ Count(last.name, " ") + Count(last.name, "-") >= 2
  /\ Count(last.name, ".") >= 1
  /\ Len(last.ret) = 1

\* C8: process_image on an existing image raises nothing and returns an image
\* no wider and no higher than 300; an image within 300x300 keeps its size;
\* otherwise the larger side becomes 300 and the other side is less than one
\* pixel away from the aspect-preserving value.  Rectangular and small images
\* only draw warnings.
ThumbnailBounded ==
  (last.op = "process_image" /\ last.fp # None)
    => LET w == last.fp[1].w
           h == last.fp[1].h
           r == last.ret
       IN /\ r.err = "none"
          /\ r.ret # None
          /\ r.ret[1].w <= ThumbSize
          /\ r.ret[1].h <= ThumbSize
          /\ (w <= ThumbSize /\ h <= ThumbSize) => (r.ret[1].w = w /\ r.ret[1].h = h)
          /\ (w > ThumbSize /\ w >= h)
               => /\ r.ret[1].w = ThumbSize
                  /\ Abs(r.ret[1].h * w - h * ThumbSize) < w
          /\ (h > ThumbSize /\ h >= w)
               => /\ r.ret[1].h = ThumbSize
                  /\ Abs(r.ret[1].w * h - w * ThumbSize) < h
          /\ ("rectangular" \in r.warnings) = (w # h)
          /\ ("small" \in r.warnings) = (w < ThumbSize \/ h < ThumbSize)

\* A rectangular image wider than 300 and lower than 300 was processed, and
\* its height was scaled down.
ThumbnailWitness ==
  /\ last.op = "process_image"
  /\ last.fp # None
  /\ last.fp[1].w > ThumbSize
  /\ last.fp[1].h < ThumbSize
  /\ last.ret.err = "none"
  /\ last.ret.ret[1].h < last.fp[1].h
  /\ last.ret.warnings = {"rectangular", "small"}

\* C9: after every successful call of make_designer the directory of the key
\* exists and holds the avatar <key>.png, an info file with designer equal to
\* the name passed, link empty and avatar.file_name equal to "<key>.png", and
\* a bio.html file.
RecordComplete ==
  (MadeCall /\ last.err = "none")
    => /\ isdir(fs, DirOf(LastKey))
       /\ isfile(fs, AvatarFile(LastKey))
       /\ isfile(fs, InfoFile(LastKey))
       /\ Field(fs[InfoFile(LastKey)].data, "designer") = last.name
       /\ Field(fs[InfoFile(LastKey)].data, "link") = <<>>
       /\ Field(Field(fs[InfoFile(LastKey)].data, "avatar"), "file_name")
            = LastKey \o PngSuffix
       /\ isfile(fs, BioFile(LastKey))

\* A successful call replaced a record written for a different name that
\* normalises to the same key.
RecordCompleteWitness ==
  /\ MadeCall
  /\ last.err = "none"
  /\ isfile(pre, InfoFile(LastKey))
  /\ Field(pre[InfoFile(LastKey)].data, "designer") # last.name
  /\ designer_dir_name(Field(pre[InfoFile(LastKey)].data, "designer")) = LastKey
  /\ Field(fs[InfoFile(LastKey)].data, "designer") = last.name

\* C10: for a Link cell with at least one token, parse_urls yields one URL per
\* token, in order, each beginning with "http" (a token beginning with "http"
\* unchanged, any other with "https://" prepended), and make_designer called
\* with a non-empty bio and those URLs completes its three writes without
\* raising, with one anchor per URL.
ParsedLinksAlwaysUsable ==
  (/\ last.op = "main"
   /\ last.spreadsheet # None
   /\ Truthy(Some(last.spreadsheet[1][1].Link))
   /\ Truthy(Some(last.spreadsheet[1][1].Bio)))
    => LET tokens == SplitWhitespace(last.spreadsheet[1][1].Link)
       IN /\ last.called
          /\ last.urls # None
          /\ Len(last.urls[1]) = Len(tokens)
          /\ \A i \in 1..Len(tokens) :
               /\ StartsWith(last.urls[1][i], HttpPrefix)
               /\ last.urls[1][i] = IF StartsWith(tokens[i], HttpPrefix)
                                    THEN tokens[i]
                                    ELSE HttpsScheme \o tokens[i]
          /\ last.err = "none"
          /\ isfile(fs, AvatarFile(LastKey))
          /\ isfile(fs, InfoFile(LastKey))
          /\ isfile(fs, BioFile(LastKey))
          /\ AnchorCount(fs[BioFile(LastKey)].data) = Len(tokens)

====
